---- MODULE Spec2Model ----
(***************************************************************************)
(* Model of stock_calculator.py: the Return Fetcher (get_monthly_returns)  *)
(* and the two presentations of the compounding loop (profit, which prints *)
(* a table, and profit_as_graph, which builds series and plots them).      *)
(*                                                                         *)
(* Amounts and percentages are exact rationals [n, d] in lowest terms      *)
(* (d > 0): the arithmetic of the loop is the arithmetic of the reals the  *)
(* Python floats stand for; the rounding of IEEE-754 doubles is outside    *)
(* the model.  A "mm/yyyy" string is the record [m, y] of its two fields,  *)
(* a datetime is [y, m, d].                                                *)
(***************************************************************************)
EXTENDS Integers, Sequences, FiniteSets, TLC

-----------------------------------------------------------------------------
(* Exact rational arithmetic standing for Python's float operators.        *)

Abs(i) == IF i < 0 THEN -i ELSE i

RECURSIVE GCD(_, _)
GCD(a, b) == IF b = 0 THEN a ELSE GCD(b, a % b)

LCM(a, b) == (a \div GCD(a, b)) * b

\* The rational n/d (d # 0) in lowest terms with a positive denominator.
Rat(n, d) ==
    LET s == IF d < 0 THEN -1 ELSE 1
        g == GCD(Abs(n), Abs(d))
    IN  [n |-> (s * n) \div g, d |-> (s * d) \div g]

FromInt(i) == [n |-> i, d |-> 1]

\* a + b
RAdd(a, b) ==
    LET l == LCM(a.d, b.d)
    IN  Rat(a.n * (l \div a.d) + b.n * (l \div b.d), l)

\* a - b
RSub(a, b) == RAdd(a, [n |-> -b.n, d |-> b.d])

\* a * b, cross-reduced first so that the products stay small
RMul(a, b) ==
    LET g1 == GCD(Abs(a.n), b.d)
        g2 == GCD(Abs(b.n), a.d)
    IN  Rat((a.n \div g1) * (b.n \div g2), (a.d \div g2) * (b.d \div g1))

\* a / b (b # 0)
RDiv(a, b) == RMul(a, Rat(b.d, b.n))

\* |q| in hundredths, rounded to the nearest with ties to even
RoundHundredths(q) ==
    LET whole == Abs(q.n) \div q.d
        num   == (Abs(q.n) % q.d) * 100
        f     == whole * 100 + (num \div q.d)
        rem   == num % q.d
    IN  IF 2 * rem < q.d THEN f
        ELSE IF 2 * rem > q.d THEN f + 1
        ELSE IF f % 2 = 0 THEN f ELSE f + 1

\* f"{q:.2f}": the text of q with two decimals, as its sign and its digits
\* (a count of hundredths): "-12.34" is ["-", 1234], and a negative q that
\* rounds to zero prints as "-0.00".
Format2f(q) ==
    [sign |-> IF q.n < 0 THEN "-" ELSE "", hundredths |-> RoundHundredths(q)]

-----------------------------------------------------------------------------
(* datetime: strptime("%m/%Y"), + timedelta(days=k), strftime("%m/%Y").    *)

IsLeap(y) == (y % 4 = 0) /\ ((y % 100 # 0) \/ (y % 400 = 0))

DaysInMonth(y, m) ==
    IF m = 2 THEN (IF IsLeap(y) THEN 29 ELSE 28)
    ELSE IF m \in {4, 6, 9, 11} THEN 30 ELSE 31

\* days in the years before year y (proleptic Gregorian, year 1 first)
DaysBeforeYear(y) ==
    (y - 1) * 365 + ((y - 1) \div 4) - ((y - 1) \div 100) + ((y - 1) \div 400)

RECURSIVE DaysBeforeMonth(_, _)
DaysBeforeMonth(y, m) ==
    IF m = 1 THEN 0 ELSE DaysBeforeMonth(y, m - 1) + DaysInMonth(y, m - 1)

\* date.toordinal()
ToOrdinal(dt) == DaysBeforeYear(dt.y) + DaysBeforeMonth(dt.y, dt.m) + dt.d

\* date.fromordinal(n)
FromOrdinal(n) ==
    LET y == CHOOSE yy \in (n \div 366)..((n \div 365) + 1) :
                 DaysBeforeYear(yy) < n /\ n <= DaysBeforeYear(yy + 1)
        r == n - DaysBeforeYear(y)
        m == CHOOSE mm \in 1..12 :
                 DaysBeforeMonth(y, mm) < r
                 /\ r <= DaysBeforeMonth(y, mm) + DaysInMonth(y, mm)
    IN  [y |-> y, m |-> m, d |-> r - DaysBeforeMonth(y, m)]

\* datetime.strptime(s, "%m/%Y") accepts s: a month 01..12 and a year.
Parseable(s) == s.m \in 1..12 /\ s.y \in 1..9999

\* datetime.strptime(s, "%m/%Y") for a parseable s: the first day of the month
Strptime(s) == [y |-> s.y, m |-> s.m, d |-> 1]

\* dt + timedelta(days=k)
PlusDays(dt, k) == FromOrdinal(ToOrdinal(dt) + k)

\* dt.strftime("%m/%Y")
Strftime(dt) == [m |-> dt.m, y |-> dt.y]

-----------------------------------------------------------------------------
(* Bounds and the inputs the calls are made with.                          *)

\* longest list of returns a caller supplies
MaxLen == 3

\* most rows (monthly prices) the data provider returns
MaxRows == 3

RECURSIVE SeqsUpTo(_, _)
SeqsUpTo(S, k) ==
    IF k = 0 THEN {<<>>}
    ELSE LET shorter == SeqsUpTo(S, k - 1)
         IN  shorter \cup {Append(q, e) : q \in {t \in shorter : Len(t) = k - 1}, e \in S}

InitialInvestments == {FromInt(0), FromInt(1000)}

MonthlyInvestments == {FromInt(0), FromInt(100), Rat(1, 8)}

ReturnValues == {FromInt(-10), FromInt(0), FromInt(10)}

\* An optional argument: [given |-> FALSE, ...] is None.
NoList == [given |-> FALSE, list |-> <<>>]

SuppliedLists == {[given |-> TRUE, list |-> l] : l \in SeqsUpTo(ReturnValues, MaxLen)}

NoDate == [given |-> FALSE, s |-> [m |-> 0, y |-> 0]]

\* "01/2020" is the default start, "01/1984" the start of the script's call;
\* "13/2020" is not a month.
StartDates ==
    {[m |-> 1, y |-> 2020], [m |-> 12, y |-> 2019], [m |-> 2, y |-> 2021],
     [m |-> 1, y |-> 1984], [m |-> 13, y |-> 2020]}

EndDates ==
    {NoDate, [given |-> TRUE, s |-> [m |-> 6, y |-> 2021]],
     [given |-> TRUE, s |-> [m |-> 0, y |-> 2021]]}

\* Adjusted closing prices the provider may report.
Prices == {FromInt(10), FromInt(11)}

\* What yf.download does: it raises, or returns a frame of monthly rows
\* (their "Adj Close" column; a frame may have no rows).
Responses ==
    {[kind |-> "raise", adj_close |-> <<>>]}
    \cup {[kind |-> "frame", adj_close |-> c] : c \in SeqsUpTo(Prices, MaxRows)}

-----------------------------------------------------------------------------
(* The Return Fetcher.                                                     *)

\* stock_data["Adj Close"].pct_change() * 100, then .dropna().tolist():
\* the change of each row from the row before it, as a percentage; the
\* first row has no change (NaN) and is dropped.
PctChange(adj_close) ==
    [i \in 1..(IF Len(adj_close) = 0 THEN 0 ELSE Len(adj_close) - 1) |->
        RMul(RSub(RDiv(adj_close[i + 1], adj_close[i]), FromInt(1)), FromInt(100))]

\* get_monthly_returns(ticker, start_date, end_date) when yf.download
\* answers with `response`: the exception it ends with ("" if none), the
\* list it returns, and the number of rows the provider returned (-1 when
\* the download was not reached or raised).
get_monthly_returns(start_date, end_date, response) ==
    IF ~Parseable(start_date)
    THEN [exc |-> "ValueError", value |-> <<>>, rows |-> -1]
    ELSE IF end_date.given /\ ~Parseable(end_date.s)
    THEN [exc |-> "ValueError", value |-> <<>>, rows |-> -1]
    ELSE IF response.kind = "raise"
    THEN [exc |-> "ProviderError", value |-> <<>>, rows |-> -1]
    ELSE [exc |-> "", value |-> PctChange(response.adj_close),
          rows |-> Len(response.adj_close)]

-----------------------------------------------------------------------------
(* State.                                                                  *)

VARIABLES
    args,       \* the keyword arguments both calls are made with
    p,          \* the frame of the call of profit: its position and locals
    stdout,     \* the lines profit has printed
    g,          \* the frame of the call of profit_as_graph
    plt,        \* the figure: the series plotted, and whether it is shown
    fetch_log   \* per caller, the calls of get_monthly_returns it made

vars == <<args, p, stdout, g, plt, fetch_log>>

\* A local name no value is bound to yet.
Unbound == [n |-> 0, d |-> 0]

UnboundDate == [y |-> 0, m |-> 0, d |-> 0]

UnboundLabel == [m |-> 0, y |-> 0]

\* A call that has not begun or has ended (returned or raised): the program
\* is single-threaded, so one call runs from entry to exit before another.
Idle(f) == f.pc \in {"entry", "returned", "raised"}

Init ==
    /\ args \in [initial_investment : InitialInvestments,
                 monthly_investment : MonthlyInvestments,
                 monthly_returns : SuppliedLists \cup {NoList},
                 start_date : StartDates,
                 end_date : EndDates]
    \* end_date is read by get_monthly_returns only
    /\ args.monthly_returns.given => args.end_date = NoDate
    /\ p = [pc |-> "entry", exc |-> "", monthly_returns |-> <<>>,
            total_investment |-> Unbound, total_value |-> Unbound,
            total_profit |-> Unbound, monthly_profit |-> Unbound,
            month |-> 0, start_date_dt |-> UnboundDate,
            current_month |-> UnboundLabel]
    /\ stdout = <<>>
    /\ g = [pc |-> "entry", exc |-> "", monthly_returns |-> <<>>,
            total_investment |-> Unbound, total_value |-> Unbound,
            total_profit |-> Unbound, monthly_profit |-> Unbound,
            month |-> 0, start_date_dt |-> UnboundDate,
            current_month |-> UnboundLabel,
            x |-> <<>>, total_value_list |-> <<>>,
            total_investment_list |-> <<>>, total_profit_list |-> <<>>,
            monthly_profit_list |-> <<>>]
    /\ plt = [series |-> <<>>, shown |-> FALSE]
    /\ fetch_log = [profit |-> <<>>, profit_as_graph |-> <<>>]

-----------------------------------------------------------------------------
(* profit: the table.                                                      *)

\* The test written `if not monthly_returns`: an empty list counts as absent.
profit_ReturnsAbsent_Falsy(monthly_returns) ==
    ~monthly_returns.given \/ monthly_returns.list = <<>>

\* `if monthly_returns is None`
profit_ReturnsAbsent(monthly_returns) == ~monthly_returns.given

\* The label computed with days=month * 30: every label one step late.
profit_CurrentMonth_NextPeriod(start_date_dt, month) ==
    Strftime(PlusDays(start_date_dt, month * 30))

\* the month label of period `month` (1-indexed)
profit_CurrentMonth(start_date_dt, month) ==
    Strftime(PlusDays(start_date_dt, (month - 1) * 30))

\* The loop body without `total_value += monthly_investment`.
profit_LoopBody_NoContribution(f, monthly_investment) ==
    LET month            == f.month + 1
        total_investment == RAdd(f.total_investment, monthly_investment)
        monthly_profit   ==
            RMul(f.total_value, RDiv(f.monthly_returns[month], FromInt(100)))
        total_value      == RAdd(f.total_value, monthly_profit)
        total_profit     == RSub(total_value, total_investment)
    IN  [f EXCEPT !.month = month,
                  !.total_investment = total_investment,
                  !.total_value = total_value,
                  !.monthly_profit = monthly_profit,
                  !.total_profit = total_profit,
                  !.current_month = profit_CurrentMonth(f.start_date_dt, month)]

\* The loop body with total_profit taken before the month's profit is added.
profit_LoopBody_StaleProfit(f, monthly_investment) ==
    LET month            == f.month + 1
        total_investment == RAdd(f.total_investment, monthly_investment)
        contributed      == RAdd(f.total_value, monthly_investment)
        monthly_profit   ==
            RMul(contributed, RDiv(f.monthly_returns[month], FromInt(100)))
        total_profit     == RSub(contributed, total_investment)
        total_value      == RAdd(contributed, monthly_profit)
    IN  [f EXCEPT !.month = month,
                  !.total_investment = total_investment,
                  !.total_value = total_value,
                  !.monthly_profit = monthly_profit,
                  !.total_profit = total_profit,
                  !.current_month = profit_CurrentMonth(f.start_date_dt, month)]

\* One pass of the loop body up to the label: the frame after it.
profit_LoopBody(f, monthly_investment) ==
    LET month            == f.month + 1
        total_investment == RAdd(f.total_investment, monthly_investment)
        contributed      == RAdd(f.total_value, monthly_investment)
        monthly_profit   ==
            RMul(contributed, RDiv(f.monthly_returns[month], FromInt(100)))
        total_value      == RAdd(contributed, monthly_profit)
        total_profit     == RSub(total_value, total_investment)
    IN  [f EXCEPT !.month = month,
                  !.total_investment = total_investment,
                  !.total_value = total_value,
                  !.monthly_profit = monthly_profit,
                  !.total_profit = total_profit,
                  !.current_month = profit_CurrentMonth(f.start_date_dt, month)]

\* the row printed at the end of a pass
profit_Row(f) ==
    [kind |-> "row", month |-> f.current_month,
     total_investment |-> Format2f(f.total_investment),
     total_value |-> Format2f(f.total_value),
     total_profit |-> Format2f(f.total_profit),
     monthly_profit |-> Format2f(f.monthly_profit)]

\* the two lines printed before the rows
HeaderLines ==
    <<[kind |-> "header", month |-> "Month",
       total_investment |-> "Total Investment", total_value |-> "Total Value",
       total_profit |-> "Total Profit", monthly_profit |-> "Monthly Profit"],
      [kind |-> "rule", month |-> "=", total_investment |-> "=",
       total_value |-> "=", total_profit |-> "=", monthly_profit |-> "="]>>

\* Entry: fetch the returns if none were passed.
profit_Call ==
    /\ p.pc = "entry" /\ Idle(g)
    /\ IF profit_ReturnsAbsent(args.monthly_returns)
       THEN \E response \in Responses :
              LET r == get_monthly_returns(args.start_date, args.end_date, response)
              IN  /\ fetch_log' = [fetch_log EXCEPT
                                     !.profit = Append(@, [exc |-> r.exc, rows |-> r.rows])]
                  /\ p' = IF r.exc # ""
                          THEN [p EXCEPT !.pc = "raised", !.exc = r.exc]
                          ELSE [p EXCEPT !.pc = "totals", !.monthly_returns = r.value]
       ELSE /\ p' = [p EXCEPT !.pc = "totals",
                              !.monthly_returns = args.monthly_returns.list]
            /\ UNCHANGED fetch_log
    /\ UNCHANGED <<args, stdout, g, plt>>

\* The totals start at the initial investment; the header is printed.
profit_Header ==
    /\ p.pc = "totals"
    /\ p' = [p EXCEPT !.pc = "strptime",
                      !.total_investment = args.initial_investment,
                      !.total_value = args.initial_investment]
    /\ stdout' = stdout \o HeaderLines
    /\ UNCHANGED <<args, g, plt, fetch_log>>

\* The start date is parsed (ValueError if it is not mm/yyyy).
profit_ParseStart ==
    /\ p.pc = "strptime"
    /\ p' = IF Parseable(args.start_date)
            THEN [p EXCEPT !.pc = "loop", !.start_date_dt = Strptime(args.start_date)]
            ELSE [p EXCEPT !.pc = "raised", !.exc = "ValueError"]
    /\ UNCHANGED <<args, stdout, g, plt, fetch_log>>

\* One pass of the loop: the totals advance and the row is printed.
profit_Iteration ==
    /\ p.pc = "loop"
    /\ p.month < Len(p.monthly_returns)
    /\ p' = profit_LoopBody(p, args.monthly_investment)
    /\ stdout' = Append(stdout, profit_Row(p'))
    /\ UNCHANGED <<args, g, plt, fetch_log>>

\* The loop is over: profit returns.
profit_Return ==
    /\ p.pc = "loop"
    /\ p.month >= Len(p.monthly_returns)
    /\ p' = [p EXCEPT !.pc = "returned"]
    /\ UNCHANGED <<args, stdout, g, plt, fetch_log>>

-----------------------------------------------------------------------------
(* profit_as_graph: the chart.                                             *)

\* The test written `if not monthly_returns`: an empty list counts as absent.
graph_ReturnsAbsent_Falsy(monthly_returns) ==
    ~monthly_returns.given \/ monthly_returns.list = <<>>

\* `if monthly_returns is None`
graph_ReturnsAbsent(monthly_returns) == ~monthly_returns.given

\* The label computed with days=(1 - month) * 30: the sign of the step lost.
graph_CurrentMonth_Backwards(start_date_dt, month) ==
    Strftime(PlusDays(start_date_dt, (1 - month) * 30))

\* The label computed with 31-day steps in this copy of the loop only.
graph_CurrentMonth_31(start_date_dt, month) ==
    Strftime(PlusDays(start_date_dt, (month - 1) * 31))

\* the month label of period `month` (1-indexed)
graph_CurrentMonth(start_date_dt, month) ==
    Strftime(PlusDays(start_date_dt, (month - 1) * 30))

\* The loop body without `total_value += monthly_investment`.
graph_LoopBody_NoContribution(f, monthly_investment) ==
    LET month            == f.month + 1
        total_investment == RAdd(f.total_investment, monthly_investment)
        monthly_profit   ==
            RMul(f.total_value, RDiv(f.monthly_returns[month], FromInt(100)))
        total_value      == RAdd(f.total_value, monthly_profit)
        total_profit     == RSub(total_value, total_investment)
        current_month    == graph_CurrentMonth(f.start_date_dt, month)
    IN  [f EXCEPT !.month = month,
                  !.total_investment = total_investment,
                  !.total_value = total_value,
                  !.monthly_profit = monthly_profit,
                  !.total_profit = total_profit,
                  !.current_month = current_month,
                  !.x = Append(@, current_month),
                  !.total_value_list = Append(@, total_value),
                  !.total_investment_list = Append(@, total_investment),
                  !.total_profit_list = Append(@, total_profit),
                  !.monthly_profit_list = Append(@, monthly_profit)]

\* The loop body with the month's profit taken on total_investment.
graph_LoopBody_ProfitOnInvestment(f, monthly_investment) ==
    LET month            == f.month + 1
        total_investment == RAdd(f.total_investment, monthly_investment)
        contributed      == RAdd(f.total_value, monthly_investment)
        monthly_profit   ==
            RMul(total_investment, RDiv(f.monthly_returns[month], FromInt(100)))
        total_value      == RAdd(contributed, monthly_profit)
        total_profit     == RSub(total_value, total_investment)
        current_month    == graph_CurrentMonth(f.start_date_dt, month)
    IN  [f EXCEPT !.month = month,
                  !.total_investment = total_investment,
                  !.total_value = total_value,
                  !.monthly_profit = monthly_profit,
                  !.total_profit = total_profit,
                  !.current_month = current_month,
                  !.x = Append(@, current_month),
                  !.total_value_list = Append(@, total_value),
                  !.total_investment_list = Append(@, total_investment),
                  !.total_profit_list = Append(@, total_profit),
                  !.monthly_profit_list = Append(@, monthly_profit)]

\* One pass of the loop body: the frame after it, the five lists appended to.
graph_LoopBody(f, monthly_investment) ==
    LET month            == f.month + 1
        total_investment == RAdd(f.total_investment, monthly_investment)
        contributed      == RAdd(f.total_value, monthly_investment)
        monthly_profit   ==
            RMul(contributed, RDiv(f.monthly_returns[month], FromInt(100)))
        total_value      == RAdd(contributed, monthly_profit)
        total_profit     == RSub(total_value, total_investment)
        current_month    == graph_CurrentMonth(f.start_date_dt, month)
    IN  [f EXCEPT !.month = month,
                  !.total_investment = total_investment,
                  !.total_value = total_value,
                  !.monthly_profit = monthly_profit,
                  !.total_profit = total_profit,
                  !.current_month = current_month,
                  !.x = Append(@, current_month),
                  !.total_value_list = Append(@, total_value),
                  !.total_investment_list = Append(@, total_investment),
                  !.total_profit_list = Append(@, total_profit),
                  !.monthly_profit_list = Append(@, monthly_profit)]

\* The calls that draw: three plt.plot lines and one plt.bar, in order.
graph_Series(f) ==
    <<[fn |-> "plot", label |-> "Total Value ($)",
       x |-> f.x, y |-> f.total_value_list],
      [fn |-> "plot", label |-> "Total Investment ($)",
       x |-> f.x, y |-> f.total_investment_list],
      [fn |-> "plot", label |-> "Total Profit ($)",
       x |-> f.x, y |-> f.total_profit_list],
      [fn |-> "bar", label |-> "Monthly Profit ($)",
       x |-> f.x, y |-> f.monthly_profit_list]>>

\* Entry: fetch the returns if none were passed.
graph_Call ==
    /\ g.pc = "entry" /\ Idle(p)
    /\ IF graph_ReturnsAbsent(args.monthly_returns)
       THEN \E response \in Responses :
              LET r == get_monthly_returns(args.start_date, args.end_date, response)
              IN  /\ fetch_log' = [fetch_log EXCEPT
                                     !.profit_as_graph =
                                         Append(@, [exc |-> r.exc, rows |-> r.rows])]
                  /\ g' = IF r.exc # ""
                          THEN [g EXCEPT !.pc = "raised", !.exc = r.exc]
                          ELSE [g EXCEPT !.pc = "totals", !.monthly_returns = r.value]
       ELSE /\ g' = [g EXCEPT !.pc = "totals",
                              !.monthly_returns = args.monthly_returns.list]
            /\ UNCHANGED fetch_log
    /\ UNCHANGED <<args, p, stdout, plt>>

\* The totals start at the initial investment; the five lists start empty.
graph_Totals ==
    /\ g.pc = "totals"
    /\ g' = [g EXCEPT !.pc = "strptime",
                      !.total_investment = args.initial_investment,
                      !.total_value = args.initial_investment,
                      !.x = <<>>, !.total_value_list = <<>>,
                      !.total_investment_list = <<>>,
                      !.total_profit_list = <<>>,
                      !.monthly_profit_list = <<>>]
    /\ UNCHANGED <<args, p, stdout, plt, fetch_log>>

\* The start date is parsed (ValueError if it is not mm/yyyy).
graph_ParseStart ==
    /\ g.pc = "strptime"
    /\ g' = IF Parseable(args.start_date)
            THEN [g EXCEPT !.pc = "loop", !.start_date_dt = Strptime(args.start_date)]
            ELSE [g EXCEPT !.pc = "raised", !.exc = "ValueError"]
    /\ UNCHANGED <<args, p, stdout, plt, fetch_log>>

\* One pass of the loop: the totals advance and the lists grow by one.
graph_Iteration ==
    /\ g.pc = "loop"
    /\ g.month < Len(g.monthly_returns)
    /\ g' = graph_LoopBody(g, args.monthly_investment)
    /\ UNCHANGED <<args, p, stdout, plt, fetch_log>>

\* The loop is over: the figure is drawn from the lists and shown.
graph_Plot ==
    /\ g.pc = "loop"
    /\ g.month >= Len(g.monthly_returns)
    /\ plt' = [series |-> graph_Series(g), shown |-> TRUE]
    /\ g' = [g EXCEPT !.pc = "returned"]
    /\ UNCHANGED <<args, p, stdout, fetch_log>>

-----------------------------------------------------------------------------

Next ==
    \/ profit_Call
    \/ profit_Header
    \/ profit_ParseStart
    \/ profit_Iteration
    \/ profit_Return
    \/ graph_Call
    \/ graph_Totals
    \/ graph_ParseStart
    \/ graph_Iteration
    \/ graph_Plot

Spec == Init /\ [][Next]_vars

-----------------------------------------------------------------------------
(* Properties.                                                             *)

\* the data rows profit has printed, in order
Rows == SelectSeq(stdout, LAMBDA line : line.kind = "row")

Zero == FromInt(0)

\* (before + contribution) * (1 + r / 100)
Compounded(before, contribution, r) ==
    RMul(RAdd(before, contribution), RAdd(FromInt(1), RDiv(r, FromInt(100))))

\* the value a period of profit_as_graph starts from
ValueBefore(i) ==
    IF i = 1 THEN args.initial_investment ELSE g.total_value_list[i - 1]

AllZero(returns) == \A i \in 1..Len(returns) : returns[i] = Zero

\* a pass of profit's loop has just run
ProfitPass == p'.month = p.month + 1

C1_Series ==
    /\ \A i \in 1..Len(g.total_value_list) :
         g.total_value_list[i] =
             Compounded(ValueBefore(i), args.monthly_investment, g.monthly_returns[i])
    /\ (p.pc = "loop" /\ p.month = 0) => p.total_value = args.initial_investment
    /\ (g.pc = "loop" /\ g.month = 0) => g.total_value = args.initial_investment
    /\ \A f \in {p, g} :
         (f.pc = "returned" /\ Len(f.monthly_returns) = 1
              /\ args.monthly_investment = Zero)
         => f.total_value =
                RMul(args.initial_investment,
                     RAdd(FromInt(1), RDiv(f.monthly_returns[1], FromInt(100))))

C1_Pass ==
    ProfitPass =>
        p'.total_value =
            Compounded(p.total_value, args.monthly_investment,
                       p.monthly_returns[p'.month])

\* C1: in profit and in profit_as_graph the cumulative value after every
\* period is (the value before the period + monthly_investment) times
\* (1 + return / 100), the value before period 1 being initial_investment;
\* with no monthly investment and a single return r the final value is
\* initial_investment * (1 + r / 100).
C1_ValueRecurrence == [](C1_Series) /\ [][C1_Pass]_vars

\* Both calls have run two periods with a contribution and non-zero returns.
C1_Witness ==
    /\ p.pc = "returned" /\ g.pc = "returned"
    /\ p.month >= 2 /\ Len(g.total_value_list) >= 2
    /\ args.monthly_investment # Zero
    /\ p.monthly_returns[2] # Zero /\ g.monthly_returns[2] # Zero

C3_Example ==
    /\ args.initial_investment = FromInt(1000)
    /\ args.monthly_investment = Zero
    /\ args.monthly_returns = [given |-> TRUE, list |-> <<FromInt(10), FromInt(-10)>>]

C3_Series ==
    /\ \A i \in 1..Len(g.monthly_profit_list) :
         g.monthly_profit_list[i] =
             RSub(g.total_value_list[i],
                  RAdd(ValueBefore(i), args.monthly_investment))
    /\ (C3_Example /\ g.pc = "returned") =>
         /\ g.total_value_list = <<FromInt(1100), FromInt(990)>>
         /\ g.monthly_profit_list = <<FromInt(100), FromInt(-110)>>
         /\ g.total_profit_list[2] = FromInt(-10)
    /\ (C3_Example /\ p.pc = "returned") =>
         /\ Rows[1].total_value = [sign |-> "", hundredths |-> 110000]
         /\ Rows[1].monthly_profit = [sign |-> "", hundredths |-> 10000]
         /\ Rows[2].total_value = [sign |-> "", hundredths |-> 99000]
         /\ Rows[2].monthly_profit = [sign |-> "-", hundredths |-> 11000]
         /\ Rows[2].total_profit = [sign |-> "-", hundredths |-> 1000]

C3_Pass ==
    ProfitPass =>
        p'.monthly_profit =
            RSub(p'.total_value, RAdd(p.total_value, args.monthly_investment))

\* C3: the period profit is the change of the value over the return step and
\* leaves the new contribution out: value after - (value before +
\* monthly_investment); initial 1000, monthly 0, returns [10, -10] give value
\* 1100 and profit 100, then value 990, profit -110, cumulative profit -10.
C3_PeriodProfit == [](C3_Series) /\ [][C3_Pass]_vars

\* The example has run to its end in both calls.
C3_Witness == C3_Example /\ p.pc = "returned" /\ g.pc = "returned"

\* C4: when every return is 0, the cumulative value equals the cumulative
\* contribution at every period, and the cumulative and the period profit
\* are 0 in every row.
C4_ZeroReturns ==
    /\ (AllZero(p.monthly_returns) /\ p.month >= 1) =>
         /\ p.total_value = p.total_investment
         /\ p.total_profit = Zero /\ p.monthly_profit = Zero
    /\ (AllZero(p.monthly_returns) /\ p.pc \in {"loop", "returned"}) =>
         \A i \in 1..Len(Rows) :
           /\ Rows[i].total_value = Rows[i].total_investment
           /\ Rows[i].total_profit = Format2f(Zero)
           /\ Rows[i].monthly_profit = Format2f(Zero)
    /\ AllZero(g.monthly_returns) =>
         \A i \in 1..Len(g.total_value_list) :
           /\ g.total_value_list[i] = g.total_investment_list[i]
           /\ g.total_profit_list[i] = Zero
           /\ g.monthly_profit_list[i] = Zero

\* Two or more zero returns, with money put in, in both calls.
C4_Witness ==
    /\ p.pc = "returned" /\ g.pc = "returned"
    /\ Len(p.monthly_returns) >= 2 /\ AllZero(p.monthly_returns)
    /\ Len(g.monthly_returns) >= 2 /\ AllZero(g.monthly_returns)
    /\ args.initial_investment # Zero /\ args.monthly_investment # Zero

\* the list was passed, and it is empty
EmptySupplied == args.monthly_returns = [given |-> TRUE, list |-> <<>>]

\* C5 as stated: with an empty list of returns profit prints no data row and
\* profit_as_graph produces no chart series.
C5_NoRowsNoSeries ==
    /\ (EmptySupplied /\ p.pc = "returned") => Rows = <<>>
    /\ (EmptySupplied /\ g.pc = "returned") => plt.series = <<>>

\* C5, amended: with an empty list of returns profit prints its two header
\* lines and no data row; profit_as_graph builds five empty lists and still
\* draws and shows the figure: three plot calls and one bar call, each over
\* no points.
C5_NoRowsEmptySeries ==
    /\ (EmptySupplied /\ p.pc = "returned") =>
         Rows = <<>> /\ stdout = HeaderLines
    /\ (EmptySupplied /\ g.pc = "returned") =>
         /\ g.x = <<>> /\ g.total_value_list = <<>>
         /\ g.total_investment_list = <<>> /\ g.total_profit_list = <<>>
         /\ g.monthly_profit_list = <<>>
         /\ plt.shown
         /\ Len(plt.series) = 4
         /\ \A k \in 1..Len(plt.series) :
              plt.series[k].x = <<>> /\ plt.series[k].y = <<>>

\* Both calls have returned from an empty list.
C5_Witness == EmptySupplied /\ p.pc = "returned" /\ g.pc = "returned"

\* the day after dt, by the calendar
NextDay(dt) ==
    IF dt.d < DaysInMonth(dt.y, dt.m) THEN [dt EXCEPT !.d = dt.d + 1]
    ELSE IF dt.m < 12 THEN [y |-> dt.y, m |-> dt.m + 1, d |-> 1]
    ELSE [y |-> dt.y + 1, m |-> 1, d |-> 1]

\* dt moved k days on, a day at a time
RECURSIVE StepDays(_, _)
StepDays(dt, k) == IF k = 0 THEN dt ELSE StepDays(NextDay(dt), k - 1)

\* mm/yyyy of the day (i - 1) * 30 days after the first of the start month
ThirtyDayLabel(i) ==
    LET day == StepDays([y |-> args.start_date.y, m |-> args.start_date.m,
                         d |-> 1], (i - 1) * 30)
    IN  [m |-> day.m, y |-> day.y]

\* C6: the month label of period i (1-indexed) is the mm/yyyy of the first
\* day of the start month plus (i - 1) * 30 days, in every row profit prints
\* and at every x position of profit_as_graph.
C6_ThirtyDayLabels ==
    /\ \A i \in 1..Len(Rows) : Rows[i].month = ThirtyDayLabel(i)
    /\ \A i \in 1..Len(g.x) : g.x[i] = ThirtyDayLabel(i)

\* Three periods from February 2021: 02/2021, 03/2021, 04/2021.
C6_Witness ==
    /\ args.start_date = [m |-> 2, y |-> 2021]
    /\ Len(Rows) = 3 /\ Len(g.x) = 3
    /\ Rows[2].month = [m |-> 3, y |-> 2021]
    /\ g.x[3] = [m |-> 4, y |-> 2021]

\* C7: when the provider returns no rows, get_monthly_returns fails, and so
\* does the call of profit or profit_as_graph that made it.
C7_NoRowsRaises ==
    /\ \A k \in 1..Len(fetch_log.profit) :
         fetch_log.profit[k].rows = 0 =>
             fetch_log.profit[k].exc # "" /\ p.pc = "raised"
    /\ \A k \in 1..Len(fetch_log.profit_as_graph) :
         fetch_log.profit_as_graph[k].rows = 0 =>
             fetch_log.profit_as_graph[k].exc # "" /\ g.pc = "raised"

C8_Calls ==
    /\ Len(fetch_log.profit) =
           IF p.pc # "entry" /\ ~args.monthly_returns.given THEN 1 ELSE 0
    /\ Len(fetch_log.profit_as_graph) =
           IF g.pc # "entry" /\ ~args.monthly_returns.given THEN 1 ELSE 0
    /\ \A f \in {p, g} :
         (args.monthly_returns.given /\ f.pc # "entry") =>
             /\ f.pc # "raised" \/ ~Parseable(args.start_date)
             /\ f.monthly_returns = args.monthly_returns.list
             /\ f.pc = "returned" => f.month = Len(args.monthly_returns.list)

C8_BeforeOutput ==
    /\ fetch_log'.profit # fetch_log.profit => stdout = <<>> /\ stdout' = <<>>
    /\ fetch_log'.profit_as_graph # fetch_log.profit_as_graph =>
           plt.series = <<>> /\ ~plt.shown /\ plt' = plt /\ g.x = <<>>

\* C8: profit and profit_as_graph call get_monthly_returns exactly once,
\* before any output, if and only if monthly_returns is None; a list that is
\* passed, the empty list too, is never replaced by a fetch and is the list
\* the loop runs over, in its order.
C8_FetchIffAbsent == [](C8_Calls) /\ [][C8_BeforeOutput]_vars

\* No list was passed: each call fetched once and ran over what it got.
C8_Witness ==
    /\ ~args.monthly_returns.given
    /\ p.pc = "returned" /\ g.pc = "returned"
    /\ Len(fetch_log.profit) = 1 /\ Len(fetch_log.profit_as_graph) = 1
    /\ Len(Rows) = 2 /\ Len(g.x) = 1

\* row i of the table is series entry i of the chart, printed
SameResult(i) ==
    /\ Rows[i].month = g.x[i]
    /\ Rows[i].total_investment = Format2f(g.total_investment_list[i])
    /\ Rows[i].total_value = Format2f(g.total_value_list[i])
    /\ Rows[i].total_profit = Format2f(g.total_profit_list[i])
    /\ Rows[i].monthly_profit = Format2f(g.monthly_profit_list[i])

\* C9: for the same arguments and the same supplied list, the table and the
\* chart hold the same results: as many rows as series entries as returns,
\* and row i prints the label and the four amounts of series entry i.
C9_TableEqualsChart ==
    args.monthly_returns.given =>
        /\ \A i \in 1..Len(Rows) : i <= Len(g.x) => SameResult(i)
        /\ (p.pc = "returned" /\ g.pc = "returned") =>
             /\ Len(Rows) = Len(args.monthly_returns.list)
             /\ \A l \in {g.x, g.total_value_list, g.total_investment_list,
                          g.total_profit_list, g.monthly_profit_list} :
                  Len(l) = Len(Rows)
             /\ p.total_investment = g.total_investment
             /\ p.total_value = g.total_value
             /\ p.total_profit = g.total_profit
             /\ p.monthly_profit = g.monthly_profit
             /\ p.current_month = g.current_month

\* Both calls returned from three supplied returns, with amounts that do not
\* print exactly.
C9_Witness ==
    /\ args.monthly_returns.given
    /\ p.pc = "returned" /\ g.pc = "returned"
    /\ Len(Rows) = 3 /\ Len(g.x) = 3
    /\ g.total_value_list[3].d > 100

\* the months from year 0 to the month of a label
MonthIndex(label) == label.y * 12 + label.m

\* C10 as stated: the labels of successive periods advance strictly, so no
\* two rows and no two x positions carry the same month.
C10_LabelsStrictlyLater ==
    /\ \A i, j \in 1..Len(Rows) :
         i < j => MonthIndex(Rows[i].month) < MonthIndex(Rows[j].month)
    /\ \A i, j \in 1..Len(g.x) :
         i < j => MonthIndex(g.x[i]) < MonthIndex(g.x[j])

\* C10, amended: the labels never go backwards: for periods i < j the label
\* of period j is the month of period i or a later one.  Two periods can
\* carry the same month (from 01/2020, periods 1 and 2 are both 01/2020).
C10_LabelsNeverEarlier ==
    /\ \A i, j \in 1..Len(Rows) :
         i < j => MonthIndex(Rows[i].month) <= MonthIndex(Rows[j].month)
    /\ \A i, j \in 1..Len(g.x) :
         i < j => MonthIndex(g.x[i]) <= MonthIndex(g.x[j])

\* From December 2019 the labels cross the year, and two are the same.
C10_Witness ==
    /\ args.start_date = [m |-> 12, y |-> 2019]
    /\ Len(Rows) = 3 /\ Len(g.x) = 3
    /\ Rows[1].month = Rows[2].month /\ g.x[1] = g.x[2]
    /\ g.x[3] = [m |-> 1, y |-> 2020]

====
